---- MODULE Spec2Model ----
(***************************************************************************)
(* A model of the three maintenance scripts under scripts/:                *)
(*   check_internal_links.py   (specification Spec, SpecRerun)             *)
(*   normalize_docs.py         (specification SpecNormalize)               *)
(*   append_prompt_history.py  (specification SpecAppend)                  *)
(* A Python str is a sequence of one-character strings.  The file system   *)
(* is a set of directories and a map from regular files to their contents, *)
(* both keyed by the path relative to the working directory.               *)
(***************************************************************************)
EXTENDS Integers, Sequences, FiniteSets, TLC

VARIABLES
    files,          \* the file system: path -> content of each regular file
    dirs,           \* the file system: the set of directories
    entry_order,    \* the file system: the order in which scandir returns names
    pc,             \* position of the running script
    output,         \* what was printed, one element per print call
    status,         \* the exit status, -1 while the script runs
    run,            \* the number of the current run of the script
    start,          \* history: `files` as the script found it
    prev,           \* history: the report of the previous run
    stack,          \* os.walk: directories still to be walked, next one first
    dirpath,        \* os.walk: the directory being listed
    todo,           \* the names of `files` the inner for loop has not reached
    fp,             \* the document being processed
    matches,        \* link_re.finditer(txt): the matches not yet reached
    checked,        \* check_internal_links: checked
    missing,        \* check_internal_links: missing
    opened,         \* history: the files opened so far, in order
    walked,         \* history: the directories os.walk has yielded, in order
    log,            \* history: one record per extracted reference, in order
    txt,            \* normalize_docs: txt
    new2,           \* normalize_docs: new2
    count,          \* normalize_docs: count
    modified_files, \* normalize_docs: modified_files
    argv,           \* append_prompt_history: sys.argv
    now             \* append_prompt_history: the formatted UTC time

fsVars == <<files, dirs, entry_order>>

procVars == <<pc, output, status, run, start, prev>>

walkVars == <<stack, dirpath, todo, fp>>

linkVars == <<matches, checked, missing, opened, walked, log>>

normVars == <<txt, new2, count, modified_files>>

appVars == <<argv, now>>

vars == <<fsVars, procVars, walkVars, linkVars, normVars, appVars>>

(***************************************************************************)
(* Bounds of the model.                                                    *)
(***************************************************************************)
MaxLinks == 2
MaxRuns == 2
MaxLen == 3

(***************************************************************************)
(* str methods.                                                            *)
(***************************************************************************)
StartsWith(s, p) == Len(p) <= Len(s) /\ SubSeq(s, 1, Len(p)) = p

EndsWith(s, p) == Len(p) <= Len(s) /\ SubSeq(s, Len(s) - Len(p) + 1, Len(s)) = p

Whitespace == {" ", "\t", "\n", "\r", "\f"}

RECURSIVE LStrip(_)
LStrip(s) == IF s # <<>> /\ Head(s) \in Whitespace THEN LStrip(Tail(s)) ELSE s

RECURSIVE RStrip(_)
RStrip(s) ==
    IF s # <<>> /\ s[Len(s)] \in Whitespace
    THEN RStrip(SubSeq(s, 1, Len(s) - 1))
    ELSE s

Strip(s) == RStrip(LStrip(s))

RECURSIVE LStripChar(_, _)
LStripChar(s, c) ==
    IF s # <<>> /\ Head(s) = c THEN LStripChar(Tail(s), c) ELSE s

\* the least index >= from at which c occurs in s, 0 when there is none
IndexFrom(s, c, from) ==
    LET hits == {i \in from..Len(s) : s[i] = c}
    IN  IF hits = {} THEN 0 ELSE CHOOSE i \in hits : \A j \in hits : i <= j

\* s.split(c, 1)[0]
BeforeFirst(s, c) ==
    LET i == IndexFrom(s, c, 1)
    IN  IF i = 0 THEN s ELSE SubSeq(s, 1, i - 1)

RECURSIVE Split(_, _)
Split(s, c) ==
    LET i == IndexFrom(s, c, 1)
    IN  IF i = 0
        THEN <<s>>
        ELSE <<SubSeq(s, 1, i - 1)>> \o Split(SubSeq(s, i + 1, Len(s)), c)

RECURSIVE JoinWith(_, _)
JoinWith(parts, sep) ==
    IF parts = <<>> THEN <<>>
    ELSE IF Len(parts) = 1 THEN parts[1]
    ELSE parts[1] \o sep \o JoinWith(Tail(parts), sep)

\* sub in s
Contains(s, sub) ==
    \E i \in 1..(Len(s) - Len(sub) + 1) : SubSeq(s, i, i + Len(sub) - 1) = sub

(***************************************************************************)
(* Text files.  open(p, 'r') translates '\r\n' and a lone '\r' to '\n'     *)
(* (universal newlines); open(p, 'w') and open(p, 'a') write '\n' as       *)
(* os.linesep.                                                             *)
(***************************************************************************)
linesep == <<"\n">>

RECURSIVE ReadText(_)
ReadText(s) ==
    LET i == IndexFrom(s, "\r", 1)
    IN  IF i = 0 THEN s
        ELSE SubSeq(s, 1, i - 1) \o <<"\n">>
             \o ReadText(IF i < Len(s) /\ s[i + 1] = "\n"
                         THEN SubSeq(s, i + 2, Len(s))
                         ELSE SubSeq(s, i + 1, Len(s)))

RECURSIVE WriteText(_)
WriteText(s) ==
    LET i == IndexFrom(s, "\n", 1)
    IN  IF i = 0 THEN s
        ELSE SubSeq(s, 1, i - 1) \o linesep \o WriteText(SubSeq(s, i + 1, Len(s)))

(***************************************************************************)
(* os.path (posixpath).                                                    *)
(***************************************************************************)
PathJoin(a, b) ==
    IF StartsWith(b, <<"/">>) THEN b
    ELSE IF a = <<>> \/ EndsWith(a, <<"/">>) THEN a \o b
    ELSE a \o <<"/">> \o b

RECURSIVE NormComps(_, _, _)
NormComps(comps, acc, initial) ==
    IF comps = <<>> THEN acc
    ELSE LET c == Head(comps)
             rest == Tail(comps)
         IN  IF c = <<>> \/ c = <<".">>
             THEN NormComps(rest, acc, initial)
             ELSE IF \/ c # <<".", ".">>
                     \/ (initial = 0 /\ acc = <<>>)
                     \/ (acc # <<>> /\ acc[Len(acc)] = <<".", ".">>)
             THEN NormComps(rest, Append(acc, c), initial)
             ELSE IF acc # <<>>
             THEN NormComps(rest, SubSeq(acc, 1, Len(acc) - 1), initial)
             ELSE NormComps(rest, acc, initial)

NormPath(p) ==
    IF p = <<>> THEN <<".">>
    ELSE LET initial ==
                 IF ~StartsWith(p, <<"/">>) THEN 0
                 ELSE IF StartsWith(p, <<"/", "/">>) /\ ~StartsWith(p, <<"/", "/", "/">>) THEN 2
                 ELSE 1
             body == JoinWith(NormComps(Split(p, "/"), <<>>, initial), <<"/">>)
             full == SubSeq(<<"/", "/">>, 1, initial) \o body
         IN  IF full = <<>> THEN <<".">> ELSE full

(***************************************************************************)
(* The file system.  A path is looked up as the kernel resolves it: there  *)
(* are no symbolic links, so the path names the entry its normal form      *)
(* names.                                                                  *)
(***************************************************************************)
IsFile(p) == NormPath(p) \in DOMAIN files

IsDir(p) == NormPath(p) \in dirs

\* open(p, 'rb').read(): the content on disk
Content(p) == files[NormPath(p)]

Basename(p) == LET c == Split(p, "/") IN c[Len(c)]

Dirname(p) ==
    LET c == Split(p, "/")
    IN  IF Len(c) = 1 THEN <<".">> ELSE JoinWith(SubSeq(c, 1, Len(c) - 1), <<"/">>)

\* every path that can name an entry of a modelled tree, with its directory
\* and its name
AllPaths ==
    {<<".">>, <<".", ".">>, <<"s", "u", "b">>, <<"d", "b">>, <<"s", "u", "b", "/", "d", "b">>, <<".", "g", "i", "t">>, <<"n", "o", "d", "e", "_", "m", "o", "d", "u", "l", "e", "s">>,
     <<"a", ".", "m", "d">>, <<"s", "u", "b", "/", "b", ".", "m", "d">>, <<"n", "o", "t", "e", "s", ".", "t", "x", "t">>, <<"d", "b", "/", "x", ".", "m", "d">>, <<"s", "u", "b", "/", "d", "b", "/", "y", ".", "m", "d">>, <<".", "g", "i", "t", "/", "z", ".", "m", "d">>,
     <<"n", "o", "d", "e", "_", "m", "o", "d", "u", "l", "e", "s", "/", "w", ".", "m", "d">>, <<"g", "u", "i", "d", "e", ".", "m", "d">>, <<"s", "u", "b", "/", "R", "E", "A", "D", "M", "E", ".", "m", "d">>,
     <<"a", ".", "m", "d", ".", "b", "a", "k">>, <<"s", "u", "b", "/", "b", ".", "m", "d", ".", "b", "a", "k">>, <<"P", "R", "O", "M", "P", "T", "_", "H", "I", "S", "T", "O", "R", "Y", ".", "m", "d">>}

PathInfo == [p \in AllPaths |-> [dir |-> Dirname(p), name |-> Basename(p)]]

\* os.scandir(d): the names in directory d, in the file system's order
ScanDir(d) ==
    LET nd == NormPath(d)
        here == {PathInfo[p].name : p \in {q \in (dirs \cup DOMAIN files) \ {<<".">>, <<".", ".">>} :
                                                 PathInfo[q].dir = nd}}
    IN  SelectSeq(entry_order, LAMBDA n : n \in here)

\* os.walk's split of a listing into (dirs, nondirs)
WalkDirs(listing, d) == SelectSeq(listing, LAMBDA n : IsDir(PathJoin(d, n)))

WalkFiles(listing, d) == SelectSeq(listing, LAMBDA n : ~IsDir(PathJoin(d, n)))

RECURSIVE MapJoin(_, _)
MapJoin(d, names) ==
    IF names = <<>> THEN <<>>
    ELSE <<PathJoin(d, Head(names))>> \o MapJoin(d, Tail(names))

(***************************************************************************)
(* check_internal_links.py                                                 *)
(***************************************************************************)
ROOT == <<".">>

skip_dirs == {<<".", "g", "i", "t">>, <<"n", "o", "d", "e", "_", "m", "o", "d", "u", "l", "e", "s">>, <<"d", "b">>}

\* link_re.finditer(text): group(1) of every match of \[[^\]]*\]\(([^)]+)\),
\* scanning from index `from`.  The label cannot hold a ']' and the target cannot
\* hold a ')', so a match starting at a '[' ends its label at the next ']'
\* and its target at the next ')'.
RECURSIVE FindLinks(_, _)
FindLinks(text, from) ==
    LET i == IndexFrom(text, "[", from)
        j == IndexFrom(text, "]", i + 1)
        k == IF j = 0 THEN 0 ELSE IndexFrom(text, ")", j + 2)
    IN  IF i = 0 THEN <<>>
        ELSE IF /\ j # 0
                /\ j + 1 <= Len(text)
                /\ text[j + 1] = "("
                /\ k > j + 2
        THEN <<SubSeq(text, j + 2, k - 1)>> \o FindLinks(text, k + 1)
        ELSE FindLinks(text, i + 1)

link_re(text) == FindLinks(text, 1)

\* IsExternal without the mailto: prefix
IsExternalNoMailto(target) ==
    \/ StartsWith(target, <<"h", "t", "t", "p", ":", "/", "/">>)
    \/ StartsWith(target, <<"h", "t", "t", "p", "s", ":", "/", "/">>)
    \/ StartsWith(target, <<"j", "a", "v", "a", "s", "c", "r", "i", "p", "t", ":">>)

IsExternal(target) ==
    \/ StartsWith(target, <<"h", "t", "t", "p", ":", "/", "/">>)
    \/ StartsWith(target, <<"h", "t", "t", "p", "s", ":", "/", "/">>)
    \/ StartsWith(target, <<"m", "a", "i", "l", "t", "o", ":">>)
    \/ StartsWith(target, <<"j", "a", "v", "a", "s", "c", "r", "i", "p", "t", ":">>)

\* which `continue` of the classification is taken: 0 when none
SkipRule(target) ==
    LET path == BeforeFirst(target, "#")
    IN  IF IsExternal(target) THEN 1
        ELSE IF StartsWith(target, <<"!">>) THEN 2
        ELSE IF path = <<>> \/ StartsWith(path, <<"#">>) THEN 3
        ELSE 0

\* Candidate without the root-relative branch
CandidateNoRoot(dp, path) == NormPath(PathJoin(dp, path))

Candidate(dp, path) ==
    IF StartsWith(path, <<"/">>)
    THEN NormPath(PathJoin(ROOT, LStripChar(path, "/")))
    ELSE NormPath(PathJoin(dp, path))

\* Exists without the directory-with-README check
ExistsNoReadme(candidate) ==
    IF IsFile(candidate) THEN TRUE
    ELSE IF IsFile(candidate \o <<".", "m", "d">>) THEN TRUE
    ELSE FALSE

Exists(candidate) ==
    IF IsFile(candidate) THEN TRUE
    ELSE IF IsFile(candidate \o <<".", "m", "d">>) THEN TRUE
    ELSE IF IsDir(candidate) /\ IsFile(PathJoin(candidate, <<"R", "E", "A", "D", "M", "E", ".", "m", "d">>)) THEN TRUE
    ELSE FALSE

\* Prune as `dirs = [...]`, which rebinds the name and leaves os.walk's list
PruneRebound(names) == names

\* dirs[:] = [d for d in dirs if d not in skip_dirs]
Prune(names) == SelectSeq(names, LAMBDA d : d \notin skip_dirs)

\* the state of a fresh process before the walk starts
ScanStart ==
    /\ pc' = "walk"
    /\ stack' = <<ROOT>>
    /\ dirpath' = <<>>
    /\ todo' = <<>>
    /\ fp' = <<>>
    /\ matches' = <<>>
    /\ checked' = 0
    /\ missing' = <<>>
    /\ output' = <<>>
    /\ status' = -1
    /\ opened' = <<>>
    /\ walked' = <<>>
    /\ log' = <<>>

\* os.walk yields the next directory; the loop body prunes its dirs
WalkDir ==
    /\ pc = "walk"
    /\ stack # <<>>
    /\ LET top == Head(stack)
           listing == ScanDir(top)
       IN  /\ dirpath' = top
           /\ walked' = Append(walked, top)
           /\ todo' = WalkFiles(listing, top)
           /\ stack' = MapJoin(top, Prune(WalkDirs(listing, top))) \o Tail(stack)
    /\ pc' = "files"
    /\ UNCHANGED <<fsVars, output, status, run, start, prev, fp, matches, checked,
                   missing, opened, log, normVars, appVars>>

\* for fn in files: a name without the .md suffix is passed over
SkipFile ==
    /\ pc = "files"
    /\ todo # <<>>
    /\ ~EndsWith(Head(todo), <<".", "m", "d">>)
    /\ todo' = Tail(todo)
    /\ UNCHANGED <<fsVars, procVars, stack, dirpath, fp, linkVars, normVars, appVars>>

\* for fn in files: a document is opened, read and matched
OpenFile ==
    /\ pc = "files"
    /\ todo # <<>>
    /\ EndsWith(Head(todo), <<".", "m", "d">>)
    /\ LET path == PathJoin(dirpath, Head(todo))
       IN  /\ fp' = path
           /\ opened' = Append(opened, path)
           /\ matches' = link_re(ReadText(Content(path)))
    /\ todo' = Tail(todo)
    /\ pc' = "links"
    /\ UNCHANGED <<fsVars, output, status, run, start, prev, stack, dirpath,
                   checked, missing, walked, log, normVars, appVars>>

\* CheckLink with an unresolved link ending the scan of its document
CheckLinkRaising ==
    /\ pc = "links"
    /\ matches # <<>>
    /\ LET target == Strip(Head(matches))
           rule == SkipRule(target)
           path == BeforeFirst(target, "#")
           candidate == Candidate(dirpath, path)
           exists == Exists(candidate)
       IN  /\ log' = Append(log, [fp |-> fp, dirpath |-> dirpath,
                                  raw |-> Head(matches), target |-> target,
                                  rule |-> rule,
                                  candidate |-> IF rule = 0 THEN candidate ELSE <<>>,
                                  exists |-> rule = 0 /\ exists])
           /\ checked' = IF rule = 0 THEN checked + 1 ELSE checked
           /\ missing' = IF rule = 0 /\ ~exists
                         THEN Append(missing, <<fp, target, candidate>>)
                         ELSE missing
           /\ matches' = IF rule = 0 /\ ~exists THEN <<>> ELSE Tail(matches)
    /\ UNCHANGED <<fsVars, procVars, walkVars, opened, walked, normVars, appVars>>

\* one pass of the body of `for m in link_re.finditer(txt)`
CheckLink ==
    /\ pc = "links"
    /\ matches # <<>>
    /\ LET target == Strip(Head(matches))
           rule == SkipRule(target)
           path == BeforeFirst(target, "#")
           candidate == Candidate(dirpath, path)
           exists == Exists(candidate)
       IN  /\ log' = Append(log, [fp |-> fp, dirpath |-> dirpath,
                                  raw |-> Head(matches), target |-> target,
                                  rule |-> rule,
                                  candidate |-> IF rule = 0 THEN candidate ELSE <<>>,
                                  exists |-> rule = 0 /\ exists])
           /\ checked' = IF rule = 0 THEN checked + 1 ELSE checked
           /\ missing' = IF rule = 0 /\ ~exists
                         THEN Append(missing, <<fp, target, candidate>>)
                         ELSE missing
    /\ matches' = Tail(matches)
    /\ UNCHANGED <<fsVars, procVars, walkVars, opened, walked, normVars, appVars>>

\* the matches of the document are exhausted
EndFile ==
    /\ pc = "links"
    /\ matches = <<>>
    /\ pc' = "files"
    /\ UNCHANGED <<fsVars, output, status, run, start, prev, walkVars, linkVars,
                   normVars, appVars>>

\* the files of the directory are exhausted
EndDir ==
    /\ pc = "files"
    /\ todo = <<>>
    /\ pc' = "walk"
    /\ UNCHANGED <<fsVars, output, status, run, start, prev, walkVars, linkVars,
                   normVars, appVars>>

SuccessLine(n) == <<"Checked ", n, " links: no missing internal markdown links found.">>

SummaryLine(n, m) == <<"Checked ", n, " links: ", m, " missing internal links:", "\n">>

FailureLine(e) == <<"In ", e[1], ": -> ", e[2], "  (resolved: ", e[3], ")">>

RECURSIVE FailureLines(_)
FailureLines(es) ==
    IF es = <<>> THEN <<>> ELSE <<FailureLine(Head(es))>> \o FailureLines(Tail(es))

\* Report with exit status 1 on failure
ReportExitOne ==
    /\ pc = "walk"
    /\ stack = <<>>
    /\ IF missing = <<>>
       THEN /\ output' = Append(output, SuccessLine(checked))
            /\ status' = 0
       ELSE /\ output' = Append(output, SummaryLine(checked, Len(missing)))
                             \o FailureLines(missing)
            /\ status' = 1
    /\ pc' = "done"
    /\ UNCHANGED <<fsVars, run, start, prev, walkVars, linkVars, normVars, appVars>>

\* Report that also saves the failure lines in a document of the tree
ReportSaved ==
    /\ pc = "walk"
    /\ stack = <<>>
    /\ IF missing = <<>>
       THEN /\ output' = Append(output, SuccessLine(checked))
            /\ status' = 0
            /\ files' = files
       ELSE /\ output' = Append(output, SummaryLine(checked, Len(missing)))
                             \o FailureLines(missing)
            /\ status' = 2
            /\ files' = (<<"g", "u", "i", "d", "e", ".", "m", "d">> :> <<"[", "m", "]", "(">> \o missing[1][2] \o <<")">>) @@ files
    /\ pc' = "done"
    /\ UNCHANGED <<dirs, entry_order, run, start, prev, walkVars, linkVars,
                   normVars, appVars>>

\* the walk is over: print the report and exit
Report ==
    /\ pc = "walk"
    /\ stack = <<>>
    /\ IF missing = <<>>
       THEN /\ output' = Append(output, SuccessLine(checked))
            /\ status' = 0
       ELSE /\ output' = Append(output, SummaryLine(checked, Len(missing)))
                             \o FailureLines(missing)
            /\ status' = 2
    /\ pc' = "done"
    /\ UNCHANGED <<fsVars, run, start, prev, walkVars, linkVars, normVars, appVars>>

\* the script is run again over the tree as it is
Rerun ==
    /\ pc = "done"
    /\ run < MaxRuns
    /\ run' = run + 1
    /\ prev' = [output |-> output, status |-> status, checked |-> checked,
                missing |-> missing]
    /\ ScanStart
    /\ UNCHANGED <<fsVars, start, normVars, appVars>>

(***************************************************************************)
(* normalize_docs.py                                                       *)
(***************************************************************************)
emoji_ranges ==
    << <<127744, 128511>>, <<128512, 128591>>, <<128640, 128767>>,
       <<9728, 9983>>, <<129280, 129535>>, <<127462, 127487>>,
       <<9984, 10175>> >>

\* ord(ch) for the characters of the modelled documents; SUN is U+2600
Ord ==
    ("\f" :> 12) @@ ("\n" :> 10) @@ ("\r" :> 13) @@ (" " :> 32)
    @@ ("SUN" :> 9728) @@ ("a" :> 97) @@ ("b" :> 98) @@ ("n" :> 110)
    @@ ("z" :> 122)

is_emoji(ch) ==
    \E k \in 1..Len(emoji_ranges) :
        emoji_ranges[k][1] <= Ord[ch] /\ Ord[ch] <= emoji_ranges[k][2]

\* ''.join(new_chars)
RemoveEmoji(s) == SelectSeq(s, LAMBDA ch : ~is_emoji(ch))

\* the number of times count += 1 runs for a document
EmojiCount(s) == Len(s) - Len(RemoveEmoji(s))

LineBoundaries == {"\n", "\r", "\f"}

RECURSIVE FirstBoundary(_, _)
FirstBoundary(s, i) ==
    IF i > Len(s) THEN 0
    ELSE IF s[i] \in LineBoundaries THEN i
    ELSE FirstBoundary(s, i + 1)

\* str.splitlines()
RECURSIVE SplitLines(_)
SplitLines(s) ==
    IF s = <<>> THEN <<>>
    ELSE LET i == FirstBoundary(s, 1)
             skip == IF i < Len(s) /\ s[i] = "\r" /\ s[i + 1] = "\n" THEN 2 ELSE 1
         IN  IF i = 0
             THEN <<s>>
             ELSE <<SubSeq(s, 1, i - 1)>>
                  \o SplitLines(SubSeq(s, i + skip, Len(s)))

RECURSIVE RStripEach(_)
RStripEach(lines) ==
    IF lines = <<>> THEN <<>>
    ELSE <<RStrip(Head(lines))>> \o RStripEach(Tail(lines))

\* new2 as the loop body computes it from txt
Normalized(t) ==
    LET joined == JoinWith(RStripEach(SplitLines(RemoveEmoji(t))), <<"\n">>)
    IN  IF EndsWith(t, <<"\n">>) /\ ~EndsWith(joined, <<"\n">>)
        THEN joined \o <<"\n">>
        ELSE joined

\* the state of a fresh process before the walk starts
NormStart ==
    /\ pc' = "walk"
    /\ output' = <<>>
    /\ status' = -1
    /\ stack' = <<<<".">>>>
    /\ dirpath' = <<>>
    /\ todo' = <<>>
    /\ fp' = <<>>
    /\ txt' = <<>>
    /\ new2' = <<>>
    /\ count' = 0
    /\ modified_files' = <<>>

\* os.walk yields the next directory; one whose path holds '.git' or
\* 'node_modules' is passed over, its subdirectories are still walked
NormWalkDir ==
    /\ pc = "walk"
    /\ stack # <<>>
    /\ LET top == Head(stack)
           listing == ScanDir(top)
       IN  /\ dirpath' = top
           /\ todo' = IF Contains(top, <<".", "g", "i", "t">>) \/ Contains(top, <<"n", "o", "d", "e", "_", "m", "o", "d", "u", "l", "e", "s">>)
                      THEN <<>>
                      ELSE WalkFiles(listing, top)
           /\ stack' = MapJoin(top, WalkDirs(listing, top)) \o Tail(stack)
    /\ pc' = "files"
    /\ UNCHANGED <<fsVars, output, status, run, start, prev, fp, linkVars,
                   normVars, appVars>>

\* for fn in files: a name without the .md suffix is passed over
NormSkipFile ==
    /\ pc = "files"
    /\ todo # <<>>
    /\ ~EndsWith(Head(todo), <<".", "m", "d">>)
    /\ todo' = Tail(todo)
    /\ UNCHANGED <<fsVars, procVars, stack, dirpath, fp, linkVars, normVars,
                   appVars>>

\* for fn in files: a document is read and its normal form computed
NormReadFile ==
    /\ pc = "files"
    /\ todo # <<>>
    /\ EndsWith(Head(todo), <<".", "m", "d">>)
    /\ LET path == PathJoin(dirpath, Head(todo))
           t == ReadText(Content(path))
           n2 == Normalized(t)
       IN  /\ fp' = path
           /\ txt' = t
           /\ new2' = n2
           /\ count' = count + EmojiCount(t)
           /\ pc' = IF n2 # t THEN "backup" ELSE "files"
    /\ todo' = Tail(todo)
    /\ UNCHANGED <<fsVars, output, status, run, start, prev, stack, dirpath,
                   linkVars, modified_files, appVars>>

\* open(bak, 'w').write(txt)
NormWriteBak ==
    /\ pc = "backup"
    /\ files' = (NormPath(fp \o <<".", "b", "a", "k">>) :> WriteText(txt)) @@ files
    /\ pc' = "write"
    /\ UNCHANGED <<dirs, entry_order, output, status, run, start, prev,
                   walkVars, linkVars, normVars, appVars>>

\* open(fp, 'w').write(new2); modified_files.append(fp)
NormWriteFile ==
    /\ pc = "write"
    /\ files' = (NormPath(fp) :> WriteText(new2)) @@ files
    /\ modified_files' = Append(modified_files, fp)
    /\ pc' = "files"
    /\ UNCHANGED <<dirs, entry_order, output, status, run, start, prev,
                   walkVars, linkVars, txt, new2, count, appVars>>

\* the files of the directory are exhausted
NormEndDir ==
    /\ pc = "files"
    /\ todo = <<>>
    /\ pc' = "walk"
    /\ UNCHANGED <<fsVars, output, status, run, start, prev, walkVars,
                   linkVars, normVars, appVars>>

\* the walk is over: print the summary and exit
NormReport ==
    /\ pc = "walk"
    /\ stack = <<>>
    /\ output' =
           << <<"Processed ", Len(modified_files), " files, removed ", count,
                " emoji characters.">> >>
           \o (IF modified_files # <<>>
               THEN << <<"Modified files (first 200):">> >>
                    \o SubSeq(modified_files, 1,
                              IF Len(modified_files) < 200
                              THEN Len(modified_files) ELSE 200)
               ELSE <<>>)
    /\ status' = 0
    /\ pc' = "done"
    /\ UNCHANGED <<fsVars, run, start, prev, walkVars, linkVars, normVars,
                   appVars>>

\* the script is run again over the tree as the last run left it
NormRerun ==
    /\ pc = "done"
    /\ run < MaxRuns
    /\ run' = run + 1
    /\ prev' = files
    /\ NormStart
    /\ UNCHANGED <<fsVars, start, linkVars, appVars>>

(***************************************************************************)
(* append_prompt_history.py                                                *)
(***************************************************************************)
filep == <<"P", "R", "O", "M", "P", "T", "_", "H", "I", "S", "T", "O", "R", "Y", ".", "m", "d">>

\* the bullet of entry_lines
Entry(stamp, paraphrase, outcome) ==
    <<"-", " ", "[">> \o stamp \o <<"]", " ", "\"">> \o paraphrase \o <<"\"">>
    \o (IF outcome # <<>> THEN <<" ", "EMDASH", " ", "O", "u", "t", "c", "o", "m", "e", ":", " ">> \o outcome ELSE <<>>)

\* if len(sys.argv) < 2: usage and exit 1 (argv[1] here is sys.argv[0])
AppCheckArgs ==
    /\ pc = "args"
    /\ IF Len(argv) < 2
       THEN /\ output' = Append(output, <<"Usage: append_prompt_history.py \"paraphrase\" [outcome]">>)
            /\ status' = 1
            /\ pc' = "done"
       ELSE /\ pc' = "exists"
            /\ UNCHANGED <<output, status>>
    /\ UNCHANGED <<fsVars, run, start, prev, walkVars, linkVars, normVars,
                   appVars>>

\* if not filep.exists(): message and exit 1
AppCheckFile ==
    /\ pc = "exists"
    /\ IF ~(IsFile(filep) \/ IsDir(filep))
       THEN /\ output' = Append(output, <<"PROMPT_HISTORY.md not found in repo root">>)
            /\ status' = 1
            /\ pc' = "done"
       ELSE /\ pc' = "append"
            /\ UNCHANGED <<output, status>>
    /\ UNCHANGED <<fsVars, run, start, prev, walkVars, linkVars, normVars,
                   appVars>>

\* AppAppend with the file opened in mode 'w'
AppAppendTruncating ==
    /\ pc = "append"
    /\ LET paraphrase == Strip(argv[2])
           outcome == IF Len(argv) > 2 THEN Strip(argv[3]) ELSE <<>>
           entry == Entry(now, paraphrase, outcome)
       IN  files' = [files EXCEPT ![filep] =
                         WriteText(<<"\n">>) \o WriteText(entry) \o WriteText(<<"\n">>)]
    /\ output' = Append(output, <<"Appended prompt to PROMPT_HISTORY.md">>)
    /\ status' = 0
    /\ pc' = "done"
    /\ UNCHANGED <<dirs, entry_order, run, start, prev, walkVars, linkVars,
                   normVars, appVars>>

\* the entry is built and written in append mode
AppAppend ==
    /\ pc = "append"
    /\ LET paraphrase == Strip(argv[2])
           outcome == IF Len(argv) > 2 THEN Strip(argv[3]) ELSE <<>>
           entry == Entry(now, paraphrase, outcome)
       IN  files' = [files EXCEPT ![filep] =
                         @ \o WriteText(<<"\n">>) \o WriteText(entry) \o WriteText(<<"\n">>)]
    /\ output' = Append(output, <<"Appended prompt to PROMPT_HISTORY.md">>)
    /\ status' = 0
    /\ pc' = "done"
    /\ UNCHANGED <<dirs, entry_order, run, start, prev, walkVars, linkVars,
                   normVars, appVars>>

Paraphrases == {<<>>, <<"h", "i">>, <<" ", "h", "i", "\n">>}

Outcomes == {<<>>, <<" ">>, <<"o", "k">>, <<" ", "o", "k", " ">>}

Times == {<<"2", "0", "2", "5", "-", "1", "0", "-", "0", "1", "T", "1", "2", ":", "0", "0", ":", "0", "0", "Z">>, <<"2", "0", "2", "5", "-", "1", "0", "-", "0", "1", "T", "1", "2", ":", "0", "0", ":", "0", "1", "Z">>}

Argvs ==
    {<<<<"a", "p", "p", "e", "n", "d", "_", "p", "r", "o", "m", "p", "t", "_", "h", "i", "s", "t", "o", "r", "y", ".", "p", "y">>>>}
    \cup {<<<<"a", "p", "p", "e", "n", "d", "_", "p", "r", "o", "m", "p", "t", "_", "h", "i", "s", "t", "o", "r", "y", ".", "p", "y">>, p>> : p \in Paraphrases}
    \cup {<<<<"a", "p", "p", "e", "n", "d", "_", "p", "r", "o", "m", "p", "t", "_", "h", "i", "s", "t", "o", "r", "y", ".", "p", "y">>, p, o>> : p \in Paraphrases, o \in Outcomes}

\* the script is invoked again
AppRerun ==
    /\ pc = "done"
    /\ run < MaxRuns
    /\ run' = run + 1
    /\ start' = files
    /\ argv' \in Argvs
    /\ now' \in Times
    /\ pc' = "args"
    /\ output' = <<>>
    /\ status' = -1
    /\ UNCHANGED <<fsVars, prev, walkVars, linkVars, normVars>>

(***************************************************************************)
(* The trees the link checker is run on: a.md and sub/b.md hold up to      *)
(* MaxLinks snippets between them, every other file is fixed.              *)
(***************************************************************************)
Broken == <<"[", "x", "]", "(", "n", "o", "p", "e", ")">>

Snippets ==
    << <<"[", "e", "]", "(", "h", "t", "t", "p", ":", "/", "/", "e", ")">>, <<"[", "e", "]", "(", "h", "t", "t", "p", "s", ":", "/", "/", "e", ")">>, <<"[", "e", "]", "(", "m", "a", "i", "l", "t", "o", ":", "e", ")">>, <<"[", "e", "]", "(", "j", "a", "v", "a", "s", "c", "r", "i", "p", "t", ":", "e", ")">>,
       <<"[", "e", "]", "(", "!", "e", ")">>, <<"[", "e", "]", "(", " ", "#", "e", " ", ")">>, <<"[", "g", "]", "(", " ", "g", "u", "i", "d", "e", " ", ")">>, <<"[", "g", "]", "(", "g", "u", "i", "d", "e", "#", "e", ")">>, <<"[", "g", "]", "(", "/", "g", "u", "i", "d", "e", "#", "e", ")">>,
       <<"[", "s", "]", "(", "s", "u", "b", "/", ")">>, <<"[", "u", "]", "(", ".", ".", "/", "a", ".", "m", "d", ")">>, <<"!", "[", "i", "]", "(", "n", "o", "p", "e", ")", "[", "x", "]", "(", ")">> >>

RECURSIVE Doc(_)
Doc(ix) ==
    IF ix = <<>> THEN <<>>
    ELSE Snippets[Head(ix)] \o <<"\n">> \o Doc(Tail(ix))

NameOrder ==
    << <<".", "g", "i", "t">>, <<"P", "R", "O", "M", "P", "T", "_", "H", "I", "S", "T", "O", "R", "Y", ".", "m", "d">>, <<"R", "E", "A", "D", "M", "E", ".", "m", "d">>, <<"a", ".", "m", "d">>, <<"a", ".", "m", "d", ".", "b", "a", "k">>, <<"b", ".", "m", "d">>,
       <<"b", ".", "m", "d", ".", "b", "a", "k">>, <<"d", "b">>, <<"g", "u", "i", "d", "e", ".", "m", "d">>, <<"n", "o", "d", "e", "_", "m", "o", "d", "u", "l", "e", "s">>, <<"n", "o", "t", "e", "s", ".", "t", "x", "t">>, <<"s", "u", "b">>,
       <<"w", ".", "m", "d">>, <<"x", ".", "m", "d">>, <<"y", ".", "m", "d">>, <<"z", ".", "m", "d">> >>

RECURSIVE Reverse(_)
Reverse(s) == IF s = <<>> THEN <<>> ELSE Append(Reverse(Tail(s)), Head(s))

TreeDirs == {<<".">>, <<".", ".">>, <<"s", "u", "b">>, <<"d", "b">>, <<"s", "u", "b", "/", "d", "b">>, <<".", "g", "i", "t">>, <<"n", "o", "d", "e", "_", "m", "o", "d", "u", "l", "e", "s">>}

Tree(a, b, guide, readme) ==
    (<<"a", ".", "m", "d">> :> a) @@ (<<"s", "u", "b", "/", "b", ".", "m", "d">> :> b) @@ (<<"n", "o", "t", "e", "s", ".", "t", "x", "t">> :> Broken)
    @@ (<<"d", "b", "/", "x", ".", "m", "d">> :> Broken) @@ (<<"s", "u", "b", "/", "d", "b", "/", "y", ".", "m", "d">> :> Broken)
    @@ (<<".", "g", "i", "t", "/", "z", ".", "m", "d">> :> Broken) @@ (<<"n", "o", "d", "e", "_", "m", "o", "d", "u", "l", "e", "s", "/", "w", ".", "m", "d">> :> Broken)
    @@ (IF guide THEN (<<"g", "u", "i", "d", "e", ".", "m", "d">> :> <<"[", "b", "]", "(", "s", "u", "b", "/", "b", ")">>) ELSE <<>>)
    @@ (IF readme THEN (<<"s", "u", "b", "/", "R", "E", "A", "D", "M", "E", ".", "m", "d">> :> <<>>) ELSE <<>>)

TreeVariants ==
    { [guide |-> FALSE, readme |-> FALSE, order |-> NameOrder],
      [guide |-> TRUE, readme |-> TRUE, order |-> Reverse(NameOrder)] }

LinkIdle ==
    /\ matches = <<>>
    /\ checked = 0
    /\ missing = <<>>
    /\ opened = <<>>
    /\ walked = <<>>
    /\ log = <<>>

NormIdle ==
    /\ txt = <<>>
    /\ new2 = <<>>
    /\ count = 0
    /\ modified_files = <<>>

AppIdle ==
    /\ argv = <<>>
    /\ now = <<>>

Init ==
    /\ \E ka \in 0..MaxLinks :
       \E kb \in 0..(MaxLinks - ka) :
       \E a \in [1..ka -> 1..Len(Snippets)] :
       \E b \in [1..kb -> 1..Len(Snippets)] :
       \E v \in TreeVariants :
           /\ files = Tree(Doc(a), Doc(b), v.guide, v.readme)
           /\ entry_order = v.order
    /\ dirs = TreeDirs
    /\ pc = "walk"
    /\ output = <<>>
    /\ status = -1
    /\ run = 1
    /\ start = files
    /\ prev = <<>>
    /\ stack = <<ROOT>>
    /\ dirpath = <<>>
    /\ todo = <<>>
    /\ fp = <<>>
    /\ LinkIdle
    /\ NormIdle
    /\ AppIdle

Next ==
    \/ WalkDir
    \/ SkipFile
    \/ OpenFile
    \/ CheckLink
    \/ EndFile
    \/ EndDir
    \/ Report

Spec == Init /\ [][Next]_vars

NextRerun ==
    \/ WalkDir
    \/ SkipFile
    \/ OpenFile
    \/ CheckLink
    \/ EndFile
    \/ EndDir
    \/ Report
    \/ Rerun

SpecRerun == Init /\ [][NextRerun]_vars

(***************************************************************************)
(* The trees normalize_docs is run on: a.md holds any text of up to MaxLen *)
(* characters, sub/b.md one of two texts, every other file is fixed.       *)
(***************************************************************************)
Alphabet == {"a", " ", "\n", "\r", "\f", "SUN"}

Texts == UNION {[1..k -> Alphabet] : k \in 0..MaxLen}

InitNormalize ==
    /\ \E a \in Texts :
       \E b \in {<<"b", "\n">>, <<"b", " ", "\n">>} :
           files = (<<"a", ".", "m", "d">> :> a) @@ (<<"s", "u", "b", "/", "b", ".", "m", "d">> :> b) @@ (<<"n", "o", "t", "e", "s", ".", "t", "x", "t">> :> <<"n", " ", "\n">>)
                   @@ (<<".", "g", "i", "t", "/", "z", ".", "m", "d">> :> <<"z", " ", "\n">>)
    /\ dirs = {<<".">>, <<".", ".">>, <<"s", "u", "b">>, <<".", "g", "i", "t">>}
    /\ entry_order = NameOrder
    /\ pc = "walk"
    /\ output = <<>>
    /\ status = -1
    /\ run = 1
    /\ start = files
    /\ prev = <<>>
    /\ stack = <<<<".">>>>
    /\ dirpath = <<>>
    /\ todo = <<>>
    /\ fp = <<>>
    /\ LinkIdle
    /\ NormIdle
    /\ AppIdle

NextNormalize ==
    \/ NormWalkDir
    \/ NormSkipFile
    \/ NormReadFile
    \/ NormWriteBak
    \/ NormWriteFile
    \/ NormEndDir
    \/ NormReport
    \/ NormRerun

SpecNormalize == InitNormalize /\ [][NextNormalize]_vars

(***************************************************************************)
(* The invocations of append_prompt_history.                               *)
(***************************************************************************)
InitAppend ==
    /\ files \in {<<>>, (filep :> <<>>), (filep :> <<"#", " ", "H", "\n">>), (filep :> <<"-", " ", "a">>)}
    /\ dirs = {<<".">>, <<".", ".">>}
    /\ entry_order = NameOrder
    /\ argv \in Argvs
    /\ now \in Times
    /\ pc = "args"
    /\ output = <<>>
    /\ status = -1
    /\ run = 1
    /\ start = files
    /\ prev = <<>>
    /\ stack = <<>>
    /\ dirpath = <<>>
    /\ todo = <<>>
    /\ fp = <<>>
    /\ LinkIdle
    /\ NormIdle

NextAppend ==
    \/ AppCheckArgs
    \/ AppCheckFile
    \/ AppAppend
    \/ AppRerun

SpecAppend == InitAppend /\ [][NextAppend]_vars

(***************************************************************************)
(* Properties of check_internal_links.                                     *)
(***************************************************************************)
\* a candidate passes one of the three checks, read off the file system
Resolves(c) ==
    \/ c \in DOMAIN files
    \/ (c \o <<".", "m", "d">>) \in DOMAIN files
    \/ (c \in dirs /\ NormPath(c \o <<"/", "R", "E", "A", "D", "M", "E", ".", "m", "d">>) \in DOMAIN files)

Survivors == {i \in 1..Len(log) : log[i].rule = 0}

RECURSIVE Unresolved(_)
Unresolved(lg) ==
    IF lg = <<>> THEN <<>>
    ELSE LET e == Head(lg)
         IN  (IF e.rule = 0 /\ ~Resolves(e.candidate)
              THEN << <<e.fp, e.target, e.candidate>> >>
              ELSE <<>>) \o Unresolved(Tail(lg))

\* C1: a surviving reference is recorded as unresolved exactly when its
\* candidate is no regular file, the candidate with '.md' appended is no
\* regular file, and the candidate is no directory holding a regular file
\* README.md; every surviving reference adds 1 to checked, so the unresolved
\* entries never outnumber the checked count.
C1_UnresolvedIffNoCheckHolds ==
    /\ missing = Unresolved(log)
    /\ checked = Cardinality(Survivors)
    /\ Len(missing) <= checked

C1_Witness ==
    /\ pc = "done"
    /\ \E i, j \in Survivors :
           /\ log[i].candidate \notin DOMAIN files
           /\ (log[i].candidate \o <<".", "m", "d">>) \notin DOMAIN files
           /\ Resolves(log[i].candidate)
           /\ ~Resolves(log[j].candidate)
           /\ Len(missing) = 1

ExternalPrefixes == {<<"h", "t", "t", "p", ":", "/", "/">>, <<"h", "t", "t", "p", "s", ":", "/", "/">>, <<"m", "a", "i", "l", "t", "o", ":">>, <<"j", "a", "v", "a", "s", "c", "r", "i", "p", "t", ":">>}

ExpectedRule(t) ==
    IF \E p \in ExternalPrefixes : StartsWith(t, p) THEN 1
    ELSE IF t # <<>> /\ t[1] = "!" THEN 2
    ELSE IF BeforeFirst(t, "#") = <<>> THEN 3
    ELSE 0

UnderExcluded(p) ==
    LET c == Split(p, "/")
    IN  \E k \in 1..(Len(c) - 1) : c[k] \in {<<".", "g", "i", "t">>, <<"n", "o", "d", "e", "_", "m", "o", "d", "u", "l", "e", "s">>, <<"d", "b">>}

C4_ReportContract ==
    LET n == Cardinality(Survivors)
        un == Unresolved(log)
    IN  /\ pc # "done" => status = -1 /\ output = <<>>
        /\ pc = "done" =>
               /\ status = 0 <=> un = <<>>
               /\ status \in {0, 2}
               /\ un = <<>> =>
                      output = << <<"Checked ", n,
                                    " links: no missing internal markdown links found.">> >>
               /\ un # <<>> =>
                      /\ Len(output) = 1 + Len(un)
                      /\ output[1] = <<"Checked ", n, " links: ", Len(un),
                                       " missing internal links:", "\n">>
                      /\ \A k \in 1..Len(un) :
                             output[k + 1] = <<"In ", un[k][1], ": -> ", un[k][2],
                                               "  (resolved: ", un[k][3], ")">>

C4_Witness ==
    /\ pc = "done"
    /\ status = 2
    /\ Len(output) = 3
    /\ checked = 2

IsPrefix(s, t) == Len(s) <= Len(t) /\ SubSeq(t, 1, Len(s)) = s

\* the documents in the order the traversal reaches them
RECURSIVE WalkOrder(_), WalkOrderAll(_)
WalkOrder(d) ==
    LET listing == ScanDir(d)
        docs == SelectSeq(WalkFiles(listing, d), LAMBDA n : EndsWith(n, <<".", "m", "d">>))
        subs == SelectSeq(WalkDirs(listing, d),
                          LAMBDA n : n \notin {<<".", "g", "i", "t">>, <<"n", "o", "d", "e", "_", "m", "o", "d", "u", "l", "e", "s">>, <<"d", "b">>})
    IN  MapJoin(d, docs) \o WalkOrderAll(MapJoin(d, subs))
WalkOrderAll(ds) ==
    IF ds = <<>> THEN <<>> ELSE WalkOrder(Head(ds)) \o WalkOrderAll(Tail(ds))

RECURSIVE RefsOf(_, _), RefsOfAll(_)
RefsOf(doc, ms) ==
    IF ms = <<>> THEN <<>>
    ELSE << <<doc, Strip(Head(ms))>> >> \o RefsOf(doc, Tail(ms))
RefsOfAll(docs) ==
    IF docs = <<>> THEN <<>>
    ELSE RefsOf(Head(docs), link_re(ReadText(Content(Head(docs)))))
         \o RefsOfAll(Tail(docs))

RECURSIVE Logged(_)
Logged(lg) ==
    IF lg = <<>> THEN <<>>
    ELSE << <<Head(lg).fp, Head(lg).target>> >> \o Logged(Tail(lg))

\* C6: an unresolved link never aborts or shortens the scan: when the
\* script exits, every reference of every document of the traversal has
\* been extracted and classified, in traversal order and then order of
\* appearance; the unresolved sequence is in that order, only ever grows at
\* its end, and the exit status is set only once the traversal is over.
C6_ScanNeverAborts ==
    /\ [](pc = "done" =>
              /\ Logged(log) = RefsOfAll(WalkOrder(ROOT))
              /\ missing = Unresolved(log))
    /\ [][/\ IsPrefix(missing, missing')
          /\ IsPrefix(log, log')
          /\ (status' # status =>
                  stack = <<>> /\ todo = <<>> /\ matches = <<>> /\ status = -1)]_vars

C6_Witness ==
    /\ pc = "done"
    /\ \E i, j \in 1..Len(log) :
           /\ i < j
           /\ log[i].rule = 0
           /\ ~log[i].exists
           /\ log[j].fp # log[i].fp
           /\ log[j].rule = 0
    /\ Len(missing) = 2

\* C7: the scan creates, modifies and deletes no file, and a second run
\* over the unchanged tree gives the same report: the same checked count,
\* the same unresolved entries in the same order, the same output and the
\* same exit status.
C7_Idempotent ==
    /\ [](run > 1 /\ pc = "done" =>
              /\ output = prev.output
              /\ status = prev.status
              /\ checked = prev.checked
              /\ missing = prev.missing)
    /\ [][files' = files /\ dirs' = dirs /\ entry_order' = entry_order]_vars

C7_Witness ==
    /\ run = 2
    /\ pc = "done"
    /\ Len(missing) = 2
    /\ files = start

(***************************************************************************)
(* Properties of normalize_docs.                                           *)
(***************************************************************************)
\* the documents normalize_docs processes
NormDocs ==
    {p \in DOMAIN start :
         /\ EndsWith(p, <<".", "m", "d">>)
         /\ ~Contains(<<".", "/">> \o Dirname(p), <<".", "g", "i", "t">>)
         /\ ~Contains(<<".", "/">> \o Dirname(p), <<"n", "o", "d", "e", "_", "m", "o", "d", "u", "l", "e", "s">>)}

Bak(p) == p \o <<".", "b", "a", "k">>

\* C8: a document whose normalised text differs from its original text has
\* <path>.bak written with the complete original text before the document
\* is overwritten; a document whose normalised text equals its original
\* text is not overwritten, gets no .bak and is not listed as modified.
C8_BackupBeforeWrite ==
    run = 1 =>
        \A p \in NormDocs :
            /\ files[p] # start[p] =>
                   Bak(p) \in DOMAIN files /\ files[Bak(p)] = start[p]
            /\ (pc = "done" /\ Normalized(ReadText(start[p])) = ReadText(start[p])) =>
                   /\ files[p] = start[p]
                   /\ Bak(p) \notin DOMAIN files
                   /\ \A k \in 1..Len(modified_files) : NormPath(modified_files[k]) # p

\* the backup holds the text as open(fp, 'r') returned it, which is the
\* original text only when the document holds no '\r'
BackupHoldsTextAsRead ==
    run = 1 =>
        \A p \in NormDocs :
            /\ files[p] # start[p] =>
                   Bak(p) \in DOMAIN files /\ files[Bak(p)] = ReadText(start[p])
            /\ (pc = "done" /\ Normalized(ReadText(start[p])) = ReadText(start[p])) =>
                   /\ files[p] = start[p]
                   /\ Bak(p) \notin DOMAIN files
                   /\ \A k \in 1..Len(modified_files) : NormPath(modified_files[k]) # p
            /\ (pc = "done" /\ Normalized(ReadText(start[p])) # ReadText(start[p])) =>
                   /\ files[p] = Normalized(ReadText(start[p]))
                   /\ files[Bak(p)] = ReadText(start[p])

\* C10: one run reaches a fixed point: a second run right after the first
\* modifies no file, so after any number of runs each <path>.bak still
\* holds the text the document had before the first run.
C10_FixedPointInOneRun ==
    run > 1 =>
        /\ modified_files = <<>>
        /\ files = prev
        /\ \A p \in NormDocs :
               Bak(p) \in DOMAIN files => files[Bak(p)] = ReadText(start[p])

(***************************************************************************)
(* Properties of append_prompt_history.                                    *)
(***************************************************************************)
\* C9: without a paraphrase argument, or without PROMPT_HISTORY.md, the
\* script exits with status 1 and leaves the file system as it was;
\* otherwise the previous content is kept as a prefix and exactly one
\* bullet is appended, with the Outcome suffix only when a non-empty
\* outcome argument was given.
C9_AppendOnly ==
    /\ pc # "done" => files = start
    /\ pc = "done" =>
           IF Len(argv) < 2 \/ filep \notin DOMAIN start
           THEN status = 1 /\ files = start
           ELSE LET bullet == <<"-", " ", "[">> \o now \o <<"]", " ", "\"">> \o Strip(argv[2]) \o <<"\"">>
                    suffixed == bullet \o <<" ", "EMDASH", " ", "O", "u", "t", "c", "o", "m", "e", ":", " ">> \o Strip(argv[3])
                IN  /\ DOMAIN files = DOMAIN start
                    /\ \/ files[filep] = start[filep] \o <<"\n">> \o bullet \o <<"\n">>
                       \/ /\ Len(argv) > 2
                          /\ argv[3] # <<>>
                          /\ files[filep] = start[filep] \o <<"\n">> \o suffixed \o <<"\n">>

C9_Witness ==
    /\ pc = "done"
    /\ status = 0
    /\ run = 2
    /\ start[filep] # <<>>
    /\ Len(argv) = 3
    /\ Contains(files[filep], <<"EMDASH", " ", "O", "u", "t", "c", "o", "m", "e", ":", " ", "o", "k">>)
    /\ Len(files[filep]) > Len(start[filep])

====
